---- MODULE Spec2Model ----
(***************************************************************************)
(* Minute-by-minute position store, horizon-event derivation, the queries  *)
(* on both, the batch builder of the position file and its load-once       *)
(* loader (scioto/sun.py, minute_moon.py, sky/sun.py,                      *)
(* scioto/sun_minute_by_minute.py).                                        *)
(*                                                                         *)
(* A position record is the list [month, day, hour, minute, alt, az]; an   *)
(* event record is [month, day, hour, minute, name, az].  Altitude and     *)
(* azimuth are stored rounded to one decimal: the model keeps them as      *)
(* integers counting tenths of a degree.  Python indices are 0-based; the  *)
(* model keeps the 0-based index values of the code and adds 1 only when   *)
(* it subscripts a TLA+ sequence.                                          *)
(***************************************************************************)
EXTENDS Integers, Sequences, FiniteSets, TLC

VARIABLES data, tz, events, eventsExist, ret, build, sunFile, sunCache, meta,
          newt, sky

vars ==
    <<data, tz, events, eventsExist, ret, build, sunFile, sunCache, meta, newt,
      sky>>

\* the state of a build, of the position file and of its loader, and of a
\* running root or crossing search: what the queries leave alone
buildVars == <<build, sunFile, sunCache, meta, newt, sky>>

-----------------------------------------------------------------------------
(* Bounds of the model *)

\* longest position table the queries and the derivation run on
MaxLen == 3

\* longest run of consecutive minutes the events are derived from
MaxRun == 5

\* largest pool of worker processes
MaxWorkers == 2

\* the calendar of the model: the months, days, hours and minutes of its year
Months == 1..2
Days == 1..2
Hours == {0}
Minutes == 0..1

\* timezones, as the offset of civil time from UTC in minutes
TzOffsets == {0, 1}

\* altitudes and azimuths, in tenths of a degree
Alts == {-70, -60, 0, 10}
Azs == {907, 2705}

\* payload of the tables the position queries run on
QueryAlts == {10}
QueryAzs == {907}

\* keys of the tables the events are derived from
DeriveKeys == {<<1, 1, 0, 1>>, <<1, 2, 0, 0>>, <<2, 1, 0, 0>>}

-----------------------------------------------------------------------------
(* Python's ordering of lists and tuples *)

Min(a, b) == IF a < b THEN a ELSE b

\* first position (1-based) where x and y differ, 0 if one is a prefix of the other
RECURSIVE FirstDiff(_, _, _)
FirstDiff(x, y, i) ==
    IF i > Min(Len(x), Len(y)) THEN 0
    ELSE IF x[i] # y[i] THEN i
    ELSE FirstDiff(x, y, i + 1)

\* x < y for two lists of integers: lexicographic, a proper prefix is smaller
PyLess(x, y) ==
    LET i == FirstDiff(x, y, 1)
    IN  IF i = 0 THEN Len(x) < Len(y) ELSE x[i] < y[i]

\* bisect.bisect_right(a, x): the loop of the standard library
RECURSIVE BisectRightLoop(_, _, _, _)
BisectRightLoop(a, x, lo, hi) ==
    IF lo < hi
    THEN LET mid == (lo + hi) \div 2
         IN  IF PyLess(x, a[mid + 1])
             THEN BisectRightLoop(a, x, lo, mid)
             ELSE BisectRightLoop(a, x, mid + 1, hi)
    ELSE lo

bisect_right(a, x) == BisectRightLoop(a, x, 0, Len(a))

-----------------------------------------------------------------------------
(* The calendar, records and tables *)

SetMin(S) == CHOOSE x \in S : \A y \in S : x <= y

Keys == {<<m, d, h, mi>> : m \in Months, d \in Days, h \in Hours, mi \in Minutes}

Dates == {<<m, d>> : m \in Months, d \in Days}

\* the partial keys at() accepts: 1 to 4 leading fields
Args ==
    {<<m>> : m \in Months}
    \cup Dates
    \cup {<<m, d, h>> : m \in Months, d \in Days, h \in Hours}
    \cup Keys

MinutesPerYear == Cardinality(Keys)

Instants == 0..(MinutesPerYear - 1)

PerHour == Cardinality(Minutes)

PerDay == PerHour * Cardinality(Hours)

PerMonth == PerDay * Cardinality(Days)

FirstKey == <<SetMin(Months), SetMin(Days), SetMin(Hours), SetMin(Minutes)>>

\* (month, day, hour, minute) of the n-th minute of the year
KeyOfMinute(n) ==
    <<FirstKey[1] + (n \div PerMonth),
      FirstKey[2] + ((n % PerMonth) \div PerDay),
      FirstKey[3] + ((n % PerDay) \div PerHour),
      FirstKey[4] + (n % PerHour)>>

\* civil time of an instant in the timezone at the given offset
Civil(instant, offset) == KeyOfMinute((instant + offset) % MinutesPerYear)

Rec(k, alt, az) == <<k[1], k[2], k[3], k[4], alt, az>>

QueryRecords == {Rec(k, alt, az) : k \in Keys, alt \in QueryAlts, az \in QueryAzs}

DeriveRecords == {Rec(k, alt, az) : k \in DeriveKeys, alt \in Alts, az \in Azs}

\* the tables of at most n records of R that results.sort() can leave
RECURSIVE SortedTables(_, _)
SortedTables(R, n) ==
    IF n = 0 THEN {<<>>}
    ELSE LET shorter == SortedTables(R, n - 1)
         IN  shorter \cup
             {Append(p[1], p[2]) : p \in
                 {q \in shorter \X R :
                     /\ Len(q[1]) = n - 1
                     /\ (q[1] # <<>> => ~PyLess(q[2], q[1][Len(q[1])]))}}

NoValue == <<>>

NoRet ==
    [op |-> "none", args |-> <<>>, status |-> "none", index |-> 0,
     value |-> NoValue, list |-> <<>>, instant |-> 0, again |-> FALSE,
     read |-> FALSE]

-----------------------------------------------------------------------------
(* Sun / Moon: the position store *)

\* Sun.at(*args), Moon.at(*args): the list after the call and what the call
\* returns (the Position of data[index]) or raises
Sun_at(self, args) ==
    LET index == bisect_right(self, args)
    IN  IF index # 0
        THEN IF index < Len(self)
             THEN [self |-> self, status |-> "ok", index |-> index,
                   value |-> self[index + 1]]
             ELSE [self |-> self, status |-> "IndexError", index |-> index,
                   value |-> NoValue]
        ELSE [self |-> self, status |-> "ValueError", index |-> 0,
              value |-> NoValue]

\* Sun.now(), Moon.now(): at() of datetime.datetime.now(), the civil time of
\* the process's own timezone
Sun_now(self, instant, localTz) == Sun_at(self, Civil(instant, localTz))

\* search() returning (i, a[i])
search_at_found(a, x) ==
    LET i == bisect_right(a, x)
    IN  IF i # 0
        THEN [self |-> a, status |-> "ok", index |-> i,
              value |-> IF i < Len(a) THEN a[i + 1] ELSE NoValue]
        ELSE [self |-> a, status |-> "ValueError", index |-> 0,
              value |-> NoValue]

\* search(a, x) of the pickle-based variant: returns (i-1, a[i-1]) or raises
search(a, x) ==
    LET i == bisect_right(a, x)
    IN  IF i # 0
        THEN [self |-> a, status |-> "ok", index |-> i - 1, value |-> a[i]]
        ELSE [self |-> a, status |-> "ValueError", index |-> 0,
              value |-> NoValue]

-----------------------------------------------------------------------------
(* Event derivation *)

TWILIGHT == -6

\* a threshold in degrees on the scale of the stored altitudes
Tenths(deg) == deg * 10

\* int(x) of a float with one decimal: truncation towards zero
int(x10) == IF x10 >= 0 THEN x10 \div 10 ELSE -((-x10) \div 10)

\* rank of an event name in Python's string order
NameOrd(name) ==
    CASE name = "Dawn" -> 1
      [] name = "Dusk" -> 2
      [] name = "Rise" -> 3
      [] name = "Set" -> 4

\* an event record as the list of integers that orders it
EvKey(ev) == <<ev[1], ev[2], ev[3], ev[4], NameOrd(ev[5]), ev[6]>>

EvLess(x, y) == PyLess(EvKey(x), EvKey(y))

\* pairwise(iterable): (s0, s1), (s1, s2), ...
pairwise(s) == [i \in 1..(IF Len(s) = 0 THEN 0 ELSE Len(s) - 1) |-> <<s[i], s[i + 1]>>]

\* the rise / set test with a sample at the horizon on either side
HorizonNameInclusive(a, b) ==
    IF a[5] <= 0 /\ 0 <= b[5] THEN "Rise"
    ELSE IF a[5] >= 0 /\ 0 >= b[5] THEN "Set"
    ELSE "None"

\* the rise / set test with strict comparisons on both sides
HorizonNameStrict(a, b) ==
    IF a[5] < 0 /\ 0 < b[5] THEN "Rise"
    ELSE IF a[5] > 0 /\ 0 > b[5] THEN "Set"
    ELSE "None"

\* the sunrise / sunset test of one pair
HorizonName(a, b) ==
    IF a[5] <= 0 /\ 0 < b[5] THEN "Rise"
    ELSE IF a[5] > 0 /\ 0 >= b[5] THEN "Set"
    ELSE "None"

\* the dawn / dusk test comparing with the horizon instead of TWILIGHT
TwilightNameAtHorizon(a, b) ==
    IF a[5] <= 0 /\ 0 < b[5] THEN "Dawn"
    ELSE IF a[5] > 0 /\ 0 >= b[5] THEN "Dusk"
    ELSE "None"

\* the dawn / dusk test of one pair
TwilightName(a, b) ==
    IF a[5] <= Tenths(TWILIGHT) /\ Tenths(TWILIGHT) < b[5] THEN "Dawn"
    ELSE IF a[5] > Tenths(TWILIGHT) /\ Tenths(TWILIGHT) >= b[5] THEN "Dusk"
    ELSE "None"

\* rec = b[:4] + [name, int(b[-1])]
EventRec(b, name) == <<b[1], b[2], b[3], b[4], name, int(b[Len(b)])>>

\* the events one pass of the loop body appends
EventsOfPair(a, b) ==
    (IF HorizonName(a, b) # "None"
     THEN <<EventRec(b, HorizonName(a, b))>> ELSE <<>>)
    \o (IF TwilightName(a, b) # "None"
        THEN <<EventRec(b, TwilightName(a, b))>> ELSE <<>>)

\* the events list when the loop over the pairs ends
RECURSIVE EventsLoop(_, _)
EventsLoop(pairs, n) ==
    IF n = 0 THEN <<>>
    ELSE EventsLoop(pairs, n - 1) \o EventsOfPair(pairs[n][1], pairs[n][2])

\* insertion of one record into a sorted list, after the records equal to it
RECURSIVE InsertSorted(_, _)
InsertSorted(s, e) ==
    IF s = <<>> THEN <<e>>
    ELSE IF EvLess(e, s[Len(s)])
         THEN Append(InsertSorted(SubSeq(s, 1, Len(s) - 1), e), s[Len(s)])
         ELSE Append(s, e)

RECURSIVE SortPrefix(_, _)
SortPrefix(s, n) ==
    IF n = 0 THEN <<>> ELSE InsertSorted(SortPrefix(s, n - 1), s[n])

Reverse(s) == [i \in 1..Len(s) |-> s[Len(s) + 1 - i]]

\* events.sort(reverse=True)
SortDescending(s) == Reverse(SortPrefix(s, Len(s)))

\* events.sort(): ascending, stable
Sort(s) == SortPrefix(s, Len(s))

\* create_horizon_event_data(): the content of the events file it writes
create_horizon_event_data(positions) ==
    LET pairs == pairwise(positions)
    IN  Sort(EventsLoop(pairs, Len(pairs)))

-----------------------------------------------------------------------------
(* SunEvents / MoonEvents: the event store *)

EvKeys(self) == [i \in 1..Len(self) |-> EvKey(self[i])]

\* self[index:] filtered by value[:2] == key
RECURSIVE FilterFrom(_, _, _)
FilterFrom(self, index, key) ==
    IF index >= Len(self) THEN <<>>
    ELSE (IF SubSeq(self[index + 1], 1, 2) = key THEN <<self[index + 1]>> ELSE <<>>)
         \o FilterFrom(self, index + 1, key)

\* on_date() slicing from index + 1
on_date_skip_first(self, month, day) ==
    LET key == <<month, day>>
        index == bisect_right(EvKeys(self), key)
    IN  [self |-> self, list |-> FilterFrom(self, index + 1, key)]

\* on_date() dropping the events before index from the table
on_date_consume(self, month, day) ==
    LET key == <<month, day>>
        index == bisect_right(EvKeys(self), key)
    IN  [self |-> SubSeq(self, index + 1, Len(self)),
         list |-> FilterFrom(self, index, key)]

\* SunEvents.on_date(month, day): the list after the call and the events
\* the call returns
on_date(self, month, day) ==
    LET key == <<month, day>>
        index == bisect_right(EvKeys(self), key)
    IN  [self |-> self, list |-> FilterFrom(self, index, key)]

\* SunEvents.today(): the same lookup for datetime.date.today()
today(self, date) ==
    LET key == <<date[1], date[2]>>
        index == bisect_right(EvKeys(self), key)
    IN  [self |-> self, list |-> FilterFrom(self, index, key)]

-----------------------------------------------------------------------------
(* The batch builder: create_sun_minute_by_minute, generate_one_year and   *)
(* create_moon_minute_by_minute.  The year of the model calendar has the   *)
(* same days whatever its number; an instant is a UTC minute of the year.  *)

SetMax(S) == CHOOSE x \in S : \A y \in S : y <= x

\* the UTC minutes of the year during which the daylight-saving zone is on
\* summer time: from the second day to the day before the last
DstInstants == {i \in Instants : PerDay <= i /\ i < MinutesPerYear - PerDay}

\* pytz timezones: two at a fixed offset from UTC and one that moves its
\* clock forward by a minute in spring and back in autumn
Zones ==
    {[zone |-> "Fixed0", offset |-> 0, dst |-> {}, saving |-> 0],
     [zone |-> "Fixed1", offset |-> 1, dst |-> {}, saving |-> 0],
     [zone |-> "Daylight", offset |-> 0, dst |-> DstInstants, saving |-> 1]}

\* tz.utcoffset() at a UTC instant
utcoffset(zone, instant) ==
    zone.offset + (IF instant \in zone.dst THEN zone.saving ELSE 0)

\* jd.astimezone(tz=tz): (month, day, hour, minute) of the civil time
astimezone(jd, zone) == Civil(jd, utcoffset(zone, jd))

\* the observer's places: latitude, longitude in tenths of a degree,
\* elevation in tenths of a metre
Locations ==
    {[latitude |-> 400, longitude |-> -830, elevation |-> 2750],
     [latitude |-> 515, longitude |-> -1, elevation |-> 110]}

\* the altitudes the ephemeris gives in the course of time, in hundredths
\* of a degree
Sky == <<-704, -596, 4, 96>>

\* where.at(t).observe(body).apparent().altaz(): altitude and azimuth of the
\* body at a UTC instant, in hundredths of a degree
altaz(where, instant) ==
    [alt |-> Sky[((instant + where.latitude) % Len(Sky)) + 1],
     az |-> IF instant % 2 = 0 THEN 9071 ELSE 27046]

\* round(x, ndigits) of a value given in hundredths: to tenths, halves to
\* the even neighbour, for ndigits = 1; kept in hundredths for ndigits = 2
round(x, ndigits) ==
    IF ndigits = 2 THEN x
    ELSE LET q == x \div 10
             r == x % 10
         IN  IF r < 5 THEN q
             ELSE IF r > 5 THEN q + 1
             ELSE IF q % 2 = 0 THEN q ELSE q + 1

\* the entry points of the builder
Entries ==
    {"create_sun_minute_by_minute", "generate_one_year",
     "create_moon_minute_by_minute"}

\* the decimals position() keeps: 2 in sun_minute_by_minute.py, 1 elsewhere
Decimals(entry) == IF entry = "generate_one_year" THEN 2 ELSE 1

\* position(jd, alt, az, tz)
position(jd, alt, az, zone, ndigits) ==
    LET date == astimezone(jd, zone)
    IN  <<date[1], date[2], date[3], date[4],
          round(alt, ndigits), round(az, ndigits)>>

\* a date is <<year, month, day>>; the number of its day in the year, from 0
DayNumber(date) ==
    (date[2] - FirstKey[1]) * Cardinality(Days) + (date[3] - FirstKey[2])

\* ts.utc(date.year, date.month, date.day, 0, n): the n-th minute of the UTC
\* day
utc(date, n) == DayNumber(date) * PerDay + n

\* compute_positions_for_date(date, ...): one record per minute of the UTC
\* day
compute_positions_for_date(date, where, zone, ndigits) ==
    [n \in 1..PerDay |->
        position(utc(date, n - 1), altaz(where, utc(date, n - 1)).alt,
                 altaz(where, utc(date, n - 1)).az, zone, ndigits)]

\* date + datetime.timedelta(days=1)
NextDay(date) ==
    IF date[3] < SetMax(Days) THEN <<date[1], date[2], date[3] + 1>>
    ELSE IF date[2] < SetMax(Months) THEN <<date[1], date[2] + 1, SetMin(Days)>>
    ELSE <<date[1] + 1, SetMin(Months), SetMin(Days)>>

\* while date < one_year_later: submit(date); date += one day
RECURSIVE SubmitLoop(_, _)
SubmitLoop(date, one_year_later) ==
    IF PyLess(date, one_year_later)
    THEN <<date>> \o SubmitLoop(NextDay(date), one_year_later)
    ELSE <<>>

\* the dates the entry point submits, in order, or the error its date
\* arithmetic raises
Submitted(entry, current) ==
    IF entry = "create_sun_minute_by_minute"
    THEN [status |-> "ok",
          fs |-> SubmitLoop(<<2020, SetMin(Months), SetMin(Days)>>,
                            <<2020 + 1, SetMin(Months), SetMin(Days)>>)]
    ELSE IF entry = "generate_one_year"
    THEN [status |-> "ok",
          fs |-> SubmitLoop(<<2016, SetMin(Months), SetMin(Days)>>,
                            <<2016 + 1, SetMin(Months), SetMin(Days)>>)]
    ELSE \* date = today().replace(day=1); date.replace(month=date.month + 1)
         IF current[2] + 1 \in Months
         THEN [status |-> "ok",
               fs |-> SubmitLoop(<<current[1], current[2], SetMin(Days)>>,
                                 <<current[1], current[2] + 1, SetMin(Days)>>)]
         ELSE [status |-> "ValueError", fs |-> <<>>]

\* results.sort(): insertion of one tuple into a sorted list
RECURSIVE InsertPosition(_, _)
InsertPosition(s, e) ==
    IF s = <<>> THEN <<e>>
    ELSE IF PyLess(e, s[Len(s)])
         THEN Append(InsertPosition(SubSeq(s, 1, Len(s) - 1), e), s[Len(s)])
         ELSE Append(s, e)

RECURSIVE SortPositionsPrefix(_, _)
SortPositionsPrefix(s, n) ==
    IF n = 0 THEN <<>> ELSE InsertPosition(SortPositionsPrefix(s, n - 1), s[n])

\* the results written in the order the tasks completed
results_unsorted(results) == results

\* results.sort()
results_sort(results) == SortPositionsPrefix(results, Len(results))

\* the object written: the dict json.dumps is given, with tz.zone for the
\* timezone; generate_one_year pickles the list alone
Document(entry, where, zone, results) ==
    IF entry = "generate_one_year" THEN [positions |-> results]
    ELSE [latitude |-> where.latitude, longitude |-> where.longitude,
          elevation |-> where.elevation, tz |-> zone.zone,
          positions |-> results]

\* the list the loop has when every task returns and the futures are
\* yielded in the order they were submitted
RECURSIVE ExtendInOrder(_, _, _, _, _)
ExtendInOrder(fs, n, where, zone, ndigits) ==
    IF n = 0 THEN <<>>
    ELSE ExtendInOrder(fs, n - 1, where, zone, ndigits)
         \o compute_positions_for_date(fs[n], where, zone, ndigits)

\* the table a build whose tasks all return writes
BuildTable(entry, where, zone, fs) ==
    results_sort(ExtendInOrder(fs, Len(fs), where, zone, Decimals(entry)))

\* a build: the entry point called, its arguments (where, tz) and the size
\* of its pool; fs are the dates submitted, st[i] the state of future i
\* (pending, running, done or failed), yielded the futures as_completed has
\* handed to the loop, results the list the loop extends
NoBuild ==
    [entry |-> "none", where |-> <<>>, tz |-> <<>>, workers |-> 0,
     phase |-> "idle", fs |-> <<>>, st |-> <<>>,
     yielded |-> {}, results |-> <<>>, error |-> "none"]

\* the loop ends on a future as soon as one has been yielded
AnyCollected(b) == b.yielded # {}

\* for future in as_completed(fs): the loop ends when every future has been
\* yielded
AllCollected(b) == b.yielded = 1..Len(b.fs)

\* future.result() with the exception of the task swallowed
future_result_or_empty(b, i) ==
    IF b.st[i] = "done"
    THEN [status |-> "ok",
          value |-> compute_positions_for_date(b.fs[i], b.where, b.tz,
                                               Decimals(b.entry))]
    ELSE [status |-> "ok", value |-> <<>>]

\* future.result(): the list the task returned, or the exception it raised
future_result(b, i) ==
    IF b.st[i] = "done"
    THEN [status |-> "ok",
          value |-> compute_positions_for_date(b.fs[i], b.where, b.tz,
                                               Decimals(b.entry))]
    ELSE [status |-> "raise", value |-> <<>>]

-----------------------------------------------------------------------------
(* The position file and its loader: load_sun, Sun.__init__ *)

NoFile == [exists |-> FALSE, doc |-> [positions |-> <<>>]]

\* the cache of load_sun: whether it holds an instance, the number of
\* instances load_sun has made, and whether a call of it has raised
NoCache == [loaded |-> FALSE, made |-> 0, failed |-> FALSE]

NoMeta == <<>>

\* pytz.timezone(name)
timezone(name) == CHOOSE zone \in Zones : zone.zone = name

\* the zone at a fixed offset
FixedZone(offset) ==
    CHOOSE zone \in Zones : zone.offset = offset /\ zone.dst = {}

\* Sun.__init__ taking the longitude from the latitude entry
Sun_init_swapped(kwargs) ==
    [data |-> kwargs.positions,
     latitude |-> kwargs.latitude,
     longitude |-> kwargs.latitude,
     elevation |-> kwargs.elevation,
     tz |-> timezone(kwargs.tz)]

\* Sun.__init__(**kwargs), Moon.__init__(**kwargs)
Sun_init(kwargs) ==
    [data |-> kwargs.positions,
     latitude |-> kwargs.latitude,
     longitude |-> kwargs.longitude,
     elevation |-> kwargs.elevation,
     tz |-> timezone(kwargs.tz)]

\* the metadata of an instance
MetaOf(instance) ==
    [latitude |-> instance.latitude, longitude |-> instance.longitude,
     elevation |-> instance.elevation, tz |-> instance.tz]

\* load_sun() without lru_cache
load_sun_uncached(cache, file) ==
    IF ~file.exists
    THEN [status |-> "AssertionError", read |-> FALSE, new |-> FALSE,
          cache |-> [cache EXCEPT !.failed = TRUE], instance |-> <<>>]
    ELSE [status |-> "ok", read |-> TRUE, new |-> TRUE,
          cache |-> [cache EXCEPT !.loaded = TRUE, !.made = @ + 1],
          instance |-> Sun_init(file.doc)]

\* load_sun() with a cache that keeps the failure of a call as well
load_sun_memo_failure(cache, file) ==
    IF cache.loaded
    THEN [status |-> "ok", read |-> FALSE, new |-> FALSE, cache |-> cache,
          instance |-> <<>>]
    ELSE IF cache.failed \/ ~file.exists
    THEN [status |-> "AssertionError", read |-> FALSE, new |-> FALSE,
          cache |-> [cache EXCEPT !.failed = TRUE], instance |-> <<>>]
    ELSE [status |-> "ok", read |-> TRUE, new |-> TRUE,
          cache |-> [cache EXCEPT !.loaded = TRUE, !.made = @ + 1],
          instance |-> Sun_init(file.doc)]

\* load_sun() under lru_cache(maxsize=1): the cached instance if there is
\* one; else the assertion fails if the file is missing, and nothing is
\* cached; else the file is read and the instance made from it is cached
load_sun(cache, file) ==
    IF cache.loaded
    THEN [status |-> "ok", read |-> FALSE, new |-> FALSE, cache |-> cache,
          instance |-> <<>>]
    ELSE IF ~file.exists
    THEN [status |-> "AssertionError", read |-> FALSE, new |-> FALSE,
          cache |-> [cache EXCEPT !.failed = TRUE], instance |-> <<>>]
    ELSE [status |-> "ok", read |-> TRUE, new |-> TRUE,
          cache |-> [cache EXCEPT !.loaded = TRUE, !.made = @ + 1],
          instance |-> Sun_init(file.doc)]

\* the file create_sun_minute_by_minute writes for a place and a timezone
BuiltFile(where, zone) ==
    [exists |-> TRUE,
     doc |-> Document("create_sun_minute_by_minute", where, zone,
                      BuildTable("create_sun_minute_by_minute", where, zone,
                                 Submitted("create_sun_minute_by_minute",
                                           <<>>).fs))]

\* the table has been loaded from its file by the one call of load_sun
Loaded(table, offset) ==
    /\ build = NoBuild
    /\ sunFile =
         [exists |-> TRUE,
          doc |-> Document("create_sun_minute_by_minute",
                           CHOOSE where \in Locations : TRUE,
                           FixedZone(offset), table)]
    /\ sunCache = [NoCache EXCEPT !.loaded = TRUE, !.made = 1]
    /\ meta = MetaOf(Sun_init(sunFile.doc))

-----------------------------------------------------------------------------
(* Root finding: newton (sky/api.py).  Time is counted in tenths of a      *)
(* second, the grid the iterates are rounded to.                           *)

\* one day of time
Day == 24 * 60 * 60 * 10

hour == Day \div 24

minute == hour \div 60

second == minute \div 60

default_newton_precision == second \div 10

\* the instants an iteration is followed on
Window == -4..4

\* the values f takes
Values == -3..3

\* f not evaluated yet at an instant
Unknown == SetMax(Values) + 1

abs(x) == IF x < 0 THEN -x ELSE x

\* n / d rounded to the nearest point of the grid, halves to the even one
RoundDiv(n, d) ==
    LET num == IF d < 0 THEN -n ELSE n
        den == abs(d)
        q == num \div den
        r == num % den
    IN  IF 2 * r < den THEN q
        ELSE IF 2 * r > den THEN q + 1
        ELSE IF q % 2 = 0 THEN q ELSE q + 1

\* x1 + (x1 - x0) / (f0/f1 - 1): the division f0/f1 fails for f1 = 0 and the
\* outer one for f0/f1 = 1, that is f0 = f1
secant(x0, x1, f0, f1) ==
    IF f1 = 0 \/ f0 = f1
    THEN [status |-> "ZeroDivisionError", x |-> x1]
    ELSE [status |-> "ok", x |-> x1 + RoundDiv((x1 - x0) * f1, f0 - f1)]

\* the loop test without the comparison of the two values of f
LoopContinuesNoStall(n) ==
    n.f1 # 0 /\ abs(n.x1 - n.x0) > n.precision

\* the loop test stopping only below the precision
LoopContinuesAtBound(n) ==
    n.f1 # 0 /\ abs(n.x1 - n.x0) >= n.precision /\ n.f1 # n.f0

\* while f1 and abs(x1 - x0) > precision and f1 != f0
LoopContinues(n) ==
    n.f1 # 0 /\ abs(n.x1 - n.x0) > n.precision /\ n.f1 # n.f0

\* no call of newton
NoNewton ==
    [pc |-> "idle", x0 |-> 0, x1 |-> 0, f0 |-> 0, f1 |-> 0,
     precision |-> 0, f |-> <<>>, status |-> "none"]

-----------------------------------------------------------------------------
(* Crossing searches: generate_horizon_events (sky/api.py, scioto/sky.py)  *)
(* and calculate_azimuth_event (scioto/sky.py)                             *)

\* the longest span searched, in hours (24 * days in the code)
MaxSpan == 3

\* altitudes of the body at the hourly samples, in degrees
SkyAlts == {-8, -6, 0, 5}

\* the altitude searched for: the horizon and civil twilight
SkyThresholds == {0, -6}

\* the instants a search starts at
Starts == {0, Day}

\* np.sign
sign(x) == IF x > 0 THEN 1 ELSE IF x < 0 THEN -1 ELSE 0

\* np.linspace(tt, tt + days, hours) with hours = 24 * days + 1: the
\* hourly instants of a span of span hours
linspace(tt, span) == [i \in 1..(span + 1) |-> tt + (i - 1) * hour]

\* np.ediff1d(s, to_end=0): the differences of neighbours, a zero appended
ediff1d(s) ==
    [i \in 1..Len(s) |-> IF i = Len(s) THEN 0 ELSE s[i + 1] - s[i]]

\* the indexes, in order, a boolean mask selects
Masked(mask) ==
    LET RECURSIVE upto(_)
        upto(i) ==
            IF i = 0 THEN <<>>
            ELSE IF mask[i] THEN Append(upto(i - 1), i) ELSE upto(i - 1)
    IN  upto(Len(mask))

\* the instants selected by the differences of the altitudes themselves
change_dates_unsigned(alt, altitude) ==
    LET d == ediff1d([i \in 1..Len(alt) |-> alt[i] - altitude])
    IN  Masked([i \in 1..Len(alt) |-> d[i] # 0])

\* jd.tt[np.ediff1d(np.sign(alt._degrees - altitude), to_end=0) != 0], as
\* the indexes of the instants selected
change_dates(alt, altitude) ==
    LET d == ediff1d([i \in 1..Len(alt) |-> sign(alt[i] - altitude)])
    IN  Masked([i \in 1..Len(alt) |-> d[i] # 0])

\* the instants strictly inside (a, b) a root may be found at
Interior(a, b) == {a + 1, (a + b) \div 2, b - 1}

\* scipy's brentq(f, a, b) with fa = f(a), fb = f(b): an endpoint where f is
\* zero, otherwise some root strictly inside; ValueError when f(a) and f(b)
\* have the same sign
brentq(a, b, fa, fb) ==
    IF fa = 0 THEN {[status |-> "ok", x |-> a]}
    ELSE IF fb = 0 THEN {[status |-> "ok", x |-> b]}
    ELSE IF sign(fa) = sign(fb) THEN {[status |-> "ValueError", x |-> a]}
    ELSE {[status |-> "ok", x |-> x] : x \in Interior(a, b)}

\* no search
NoSky ==
    [op |-> "none", pc |-> "idle", tt |-> 0, jd |-> <<>>, alt |-> <<>>,
     altitude |-> 0, which_kind |-> 0, change_dates |-> <<>>,
     calls |-> <<>>, yielded |-> <<>>, status |-> "none",
     az |-> <<>>, azimuth |-> 0, selected |-> 0,
     args |-> <<>>, motion |-> 0, covered |-> 0, angle_to_cover |-> 0,
     d |-> 0]

\* azimuths of the body at the samples, in degrees
SkyAzs == {340, 350, 10, 20}

\* the azimuth searched for
Targets == {345, 355, 0, 15}

\* np.linspace(tt, tt + 1.2, 25): 24 steps over 1.2 days, of which the
\* first span are taken
linspace_azimuth(tt, span) ==
    [i \in 1..(span + 1) |-> tt + (i - 1) * ((12 * Day) \div (10 * 24))]

\* the loop over pairwise(zip(az._degrees, jd.tt)) from pair i on: the first
\* pair with aza <= azimuth <= azb, azb raised by 360 when aza > azb; 0
\* when the loop ends without one
FirstSelected(az, azimuth) ==
    LET Selects(i) ==
            LET aza == az[i]
                azb == IF az[i] > az[i + 1] THEN az[i + 1] + 360
                       ELSE az[i + 1]
            IN  aza <= azimuth /\ azimuth <= azb
        RECURSIVE from(_)
        from(i) ==
            IF i >= Len(az) THEN 0
            ELSE IF Selects(i) THEN i ELSE from(i + 1)
    IN  from(1)

-----------------------------------------------------------------------------
(* Seeds of the phase and season searches: find_moon_phase and season      *)
(* (sky/api.py).  Angles are counted in steps of 15 degrees.               *)

pi == 180 \div 15

twopi == pi * 2

halfpi == pi \div 2

\* the tolerance arcsecond / 360 on the grid: two steps
tiny == pi \div 6

\* Motions.Previous, Motions.Next
Motions == {-twopi, twopi}

\* Phase: NewMoon, FirstQuarter, FullMoon, LastQuarter
Phase == {0, halfpi, pi, pi + halfpi}

\* Season: Spring, Winter, Fall, Summer
Season == {0, halfpi, pi, pi + halfpi}

\* Angle.radians: the angles of a full turn, from 0
Radians == 0..(twopi - 1)

\* Python's a % m: the result has the sign of m
PyMod(a, m) == IF m > 0 THEN a % m ELSE -((-a) % (-m))

\* f(tt) of find_moon_phase:
\* (mlon.radians - slon.radians - antitarget) % twopi - pi
phase_residual(mlon, slon, antitarget) ==
    PyMod(mlon - slon - antitarget, twopi) - pi

\* an angle to cover left as computed
never_replaced(angle, motion) == angle

\* if abs(angle_to_cover) < tiny: angle_to_cover = motion
replaced(angle, motion) == IF abs(angle) < tiny THEN motion ELSE angle

\* period * angle_to_cover / twopi for a period in hundredths of a day
\* (29.53 and 365.25 days), to the hundredth of a day
seed_offset(period, angle) == RoundDiv(period * angle, twopi) * (Day \div 100)

-----------------------------------------------------------------------------
(* Actions *)

\* a position table as create_sun_minute_by_minute leaves it, no events file
InitQuery ==
    /\ data \in SortedTables(QueryRecords, MaxLen)
    /\ tz \in TzOffsets
    /\ events = <<>>
    /\ eventsExist = FALSE
    /\ ret = NoRet
    /\ Loaded(data, tz)
    /\ newt = NoNewton
    /\ sky = NoSky

\* a position table with altitudes on both sides of the thresholds; the
\* event queries do not read the timezone
InitEvents ==
    /\ data \in SortedTables(DeriveRecords, MaxLen)
    /\ tz = SetMin(TzOffsets)
    /\ events = <<>>
    /\ eventsExist = FALSE
    /\ ret = NoRet
    /\ Loaded(data, tz)
    /\ newt = NoNewton
    /\ sky = NoSky

\* the call repeats the event query made just before it
Again(op, args) == ret.op = op /\ ret.args = args

At(args) ==
    \E r \in {Sun_at(data, args)} :
        /\ data' = r.self
        /\ ret' = [NoRet EXCEPT !.op = "at", !.args = args, !.status = r.status,
                                !.index = r.index, !.value = r.value]
        /\ UNCHANGED <<tz, events, eventsExist>>
        /\ UNCHANGED buildVars

\* now(): the clock and the timezone of the process are read from the environment
Now(instant, localTz) ==
    \E r \in {Sun_now(data, instant, localTz)} :
        /\ data' = r.self
        /\ ret' = [NoRet EXCEPT !.op = "now", !.args = Civil(instant, localTz),
                                !.status = r.status, !.index = r.index,
                                !.value = r.value, !.instant = instant]
        /\ UNCHANGED <<tz, events, eventsExist>>
        /\ UNCHANGED buildVars

Search(x) ==
    \E r \in {search(data, x)} :
        /\ data' = r.self
        /\ ret' = [NoRet EXCEPT !.op = "search", !.args = x, !.status = r.status,
                                !.index = r.index, !.value = r.value]
        /\ UNCHANGED <<tz, events, eventsExist>>
        /\ UNCHANGED buildVars

\* create_horizon_event_data(): data = load_sun().data is the list of the
\* instance the process has cached, read from the file only when none is
\* cached yet; the events of that list are written to the events file
CreateHorizonEventData ==
    \E r \in {load_sun(sunCache, sunFile)} :
        /\ sunCache' = r.cache
        /\ IF r.new
           THEN /\ data' = r.instance.data
                /\ tz' = r.instance.tz.offset
                /\ meta' = MetaOf(r.instance)
           ELSE UNCHANGED <<data, tz, meta>>
        /\ IF r.status = "ok"
           THEN /\ events' = create_horizon_event_data(data')
                /\ eventsExist' = TRUE
           ELSE UNCHANGED <<events, eventsExist>>
        /\ ret' = [NoRet EXCEPT !.op = "create_horizon_event_data",
                                !.status = r.status]
        /\ UNCHANGED <<build, sunFile, newt, sky>>

\* load_events() needs the events file
OnDate(month, day) ==
    /\ eventsExist
    /\ \E r \in {on_date(events, month, day)} :
           /\ events' = r.self
           /\ ret' = [NoRet EXCEPT !.op = "on_date", !.args = <<month, day>>,
                                   !.status = "ok", !.list = r.list,
                                   !.again = Again("on_date", <<month, day>>)]
    /\ UNCHANGED <<data, tz, eventsExist>>
    /\ UNCHANGED buildVars

Today(date) ==
    /\ eventsExist
    /\ \E r \in {today(events, date)} :
           /\ events' = r.self
           /\ ret' = [NoRet EXCEPT !.op = "today", !.args = date,
                                   !.status = "ok", !.list = r.list,
                                   !.again = Again("today", date)]
    /\ UNCHANGED <<data, tz, eventsExist>>
    /\ UNCHANGED buildVars

Next ==
    \/ \E args \in Args : At(args)
    \/ \E instant \in Instants, localTz \in TzOffsets : Now(instant, localTz)
    \/ \E x \in Keys : Search(x)

NextEvents ==
    \/ CreateHorizonEventData
    \/ \E date \in Dates : OnDate(date[1], date[2])
    \/ \E date \in Dates : Today(date)

\* the tables of the first n minutes of the year, altitudes free
RunTables(n) ==
    {[i \in 1..n |-> Rec(KeyOfMinute(i - 1), alts[i], SetMin(Azs))] :
        alts \in [1..n -> Alts]}

\* a loaded position table of consecutive minutes: its keys are strictly
\* increasing
InitRun ==
    /\ data \in UNION {RunTables(n) : n \in 0..MaxRun}
    /\ tz = SetMin(TzOffsets)
    /\ events = <<>>
    /\ eventsExist = FALSE
    /\ ret = NoRet
    /\ Loaded(data, tz)
    /\ newt = NoNewton
    /\ sky = NoSky

\* queries on a position table
Spec == InitQuery /\ [][Next]_vars

\* derivation of the events of a table of consecutive minutes
SpecRun == InitRun /\ [][NextEvents]_vars

\* derivation of the events of a position table, and queries on them
SpecEvents == InitEvents /\ [][NextEvents]_vars

-----------------------------------------------------------------------------
(* Actions of a build *)

\* the dates datetime.date.today() can return
Todays == {<<2026, m, d>> : m \in Months, d \in Days}

\* a file an earlier build has left
OldFile ==
    [exists |-> TRUE,
     doc |-> [positions |-> <<Rec(FirstKey, SetMin(Alts), SetMin(Azs))>>]]

\* an entry point is about to be called, with or without a file from an
\* earlier build; nothing is loaded
InitBuild ==
    /\ data = <<>>
    /\ tz = SetMin(TzOffsets)
    /\ events = <<>>
    /\ eventsExist = FALSE
    /\ ret = NoRet
    /\ build \in {[NoBuild EXCEPT !.entry = entry, !.where = where,
                                  !.tz = zone, !.workers = workers] :
                     entry \in Entries,
                     where \in {CHOOSE w \in Locations : TRUE},
                     zone \in Zones, workers \in 1..MaxWorkers}
    /\ sunFile \in {NoFile, OldFile}
    /\ sunCache = NoCache
    /\ meta = NoMeta
    /\ newt = NoNewton
    /\ sky = NoSky

\* the entry point computes its dates and submits one task per date
StartBuild(current) ==
    /\ build.phase = "idle"
    /\ \E s \in {Submitted(build.entry, current)} :
          build' = IF s.status = "ok"
                   THEN [build EXCEPT !.phase = "collecting", !.fs = s.fs,
                                      !.st = [i \in 1..Len(s.fs) |-> "pending"]]
                   ELSE [build EXCEPT !.phase = "failed", !.error = s.status]
    /\ UNCHANGED <<data, tz, events, eventsExist, ret, sunFile, sunCache, meta,
                   newt, sky>>

\* a worker of the pool takes a pending task
RunTask(i) ==
    /\ build.phase \in {"collecting", "aborting"}
    /\ build.st[i] = "pending"
    /\ Cardinality({j \in 1..Len(build.st) : build.st[j] = "running"})
         < build.workers
    /\ build' = [build EXCEPT !.st[i] = "running"]
    /\ UNCHANGED <<data, tz, events, eventsExist, ret, sunFile, sunCache, meta,
                   newt, sky>>

\* the task returns its list (ok) or raises
FinishTask(i, ok) ==
    /\ build.phase \in {"collecting", "aborting"}
    /\ build.st[i] = "running"
    /\ build' = [build EXCEPT !.st[i] = IF ok THEN "done" ELSE "failed"]
    /\ UNCHANGED <<data, tz, events, eventsExist, ret, sunFile, sunCache, meta,
                   newt, sky>>

\* as_completed yields a finished future: results.extend(future.result()),
\* or the exception of the task leaves the loop
Collect(i) ==
    /\ build.phase = "collecting"
    /\ i \notin build.yielded
    /\ build.st[i] \in {"done", "failed"}
    /\ \E r \in {future_result(build, i)} :
          build' = IF r.status = "ok"
                   THEN [build EXCEPT !.yielded = @ \cup {i},
                                      !.results = @ \o r.value]
                   ELSE [build EXCEPT !.yielded = @ \cup {i},
                                      !.phase = "aborting"]
    /\ UNCHANGED <<data, tz, events, eventsExist, ret, sunFile, sunCache, meta,
                   newt, sky>>

\* the with block has waited for the tasks left and the exception reaches
\* the caller
Raise ==
    /\ build.phase = "aborting"
    /\ \A i \in 1..Len(build.st) : build.st[i] \in {"done", "failed"}
    /\ build' = [build EXCEPT !.phase = "failed", !.error = "task"]
    /\ UNCHANGED <<data, tz, events, eventsExist, ret, sunFile, sunCache, meta,
                   newt, sky>>

\* the loop has ended: results.sort() and the file is written
WriteFile ==
    /\ build.phase = "collecting"
    /\ AllCollected(build)
    /\ sunFile' = [exists |-> TRUE,
                   doc |-> Document(build.entry, build.where, build.tz,
                                    results_sort(build.results))]
    /\ build' = [build EXCEPT !.phase = "written"]
    /\ UNCHANGED <<data, tz, events, eventsExist, ret, sunCache, meta, newt, sky>>

NextBuild ==
    \/ \E current \in Todays : StartBuild(current)
    \/ \E i \in 1..Len(build.st) : RunTask(i)
    \/ \E i \in 1..Len(build.st), ok \in BOOLEAN : FinishTask(i, ok)
    \/ \E i \in 1..Len(build.st) : Collect(i)
    \/ Raise
    \/ WriteFile

\* one call of an entry point of the builder
SpecBuild == InitBuild /\ [][NextBuild]_vars

-----------------------------------------------------------------------------
(* Actions of the loader *)

\* a process starts with nothing loaded; the file may be there already
InitLoad ==
    /\ data = <<>>
    /\ tz = SetMin(TzOffsets)
    /\ events = <<>>
    /\ eventsExist = FALSE
    /\ ret = NoRet
    /\ build = NoBuild
    /\ sunFile \in {NoFile} \cup {BuiltFile(where, zone) :
                                     where \in Locations, zone \in Zones}
    /\ sunCache = NoCache
    /\ meta = NoMeta
    /\ newt = NoNewton
    /\ sky = NoSky

\* a call of load_sun()
LoadSun ==
    /\ \E r \in {load_sun(sunCache, sunFile)} :
          /\ sunCache' = r.cache
          /\ IF r.new
             THEN /\ data' = r.instance.data
                  /\ tz' = r.instance.tz.offset
                  /\ meta' = MetaOf(r.instance)
             ELSE UNCHANGED <<data, tz, meta>>
          /\ ret' = [NoRet EXCEPT !.op = "load_sun", !.status = r.status,
                                  !.read = r.read,
                                  !.index = IF r.status = "ok"
                                            THEN r.cache.made ELSE 0,
                                  !.again = (ret.op = "load_sun")]
    /\ UNCHANGED <<events, eventsExist, build, sunFile, newt, sky>>

\* a run of create_sun_minute_by_minute whose tasks all return, in this or
\* in another process: the file is written anew
Rebuild(where, zone) ==
    /\ sunFile' = BuiltFile(where, zone)
    /\ ret' = [NoRet EXCEPT !.op = "create_sun_minute_by_minute",
                            !.status = "ok"]
    /\ UNCHANGED <<data, tz, events, eventsExist, build, sunCache, meta, newt, sky>>

NextLoad ==
    \/ LoadSun
    \/ \E where \in Locations, zone \in Zones : Rebuild(where, zone)
    \/ CreateHorizonEventData

\* the loads of one process and the builds of the file
SpecLoad == InitLoad /\ [][NextLoad]_vars

-----------------------------------------------------------------------------
(* Actions of newton.  f is any function: its value at an instant is       *)
(* chosen when newton first evaluates it there and is the same afterwards. *)

InitNewton ==
    /\ data = <<>>
    /\ tz = SetMin(TzOffsets)
    /\ events = <<>>
    /\ eventsExist = FALSE
    /\ ret = NoRet
    /\ build = NoBuild
    /\ sunFile = NoFile
    /\ sunCache = NoCache
    /\ meta = NoMeta
    /\ newt = NoNewton
    /\ sky = NoSky

\* newton(f, x0, x1): f0, f1 = f(x0), f(x1)
NewtonCall ==
    /\ newt.pc = "idle"
    /\ \E x0, x1 \in Window, v0, v1 \in Values :
          /\ x0 = x1 => v0 = v1
          /\ newt' = [pc |-> "loop", x0 |-> x0, x1 |-> x1,
                      f0 |-> v0, f1 |-> v1,
                      precision |-> default_newton_precision,
                      f |-> [x \in Window |->
                                IF x = x0 THEN v0 ELSE IF x = x1 THEN v1
                                ELSE Unknown],
                      status |-> "none"]
    /\ UNCHANGED <<data, tz, events, eventsExist, ret, build, sunFile,
                   sunCache, meta, sky>>

\* one pass of the loop body: x0, x1 = x1, <secant>; f0, f1 = f1, f(x1).
\* An iterate that leaves the window is not followed further
NewtonIterate(v) ==
    /\ newt.pc = "loop"
    /\ LoopContinues(newt)
    /\ \E s \in {secant(newt.x0, newt.x1, newt.f0, newt.f1)} :
          IF s.status # "ok"
          THEN /\ v = SetMin(Values)
               /\ newt' = [newt EXCEPT !.pc = "raised", !.status = s.status]
          ELSE IF s.x \notin Window
          THEN /\ v = SetMin(Values)
               /\ newt' = [newt EXCEPT !.pc = "outside"]
          ELSE /\ newt.f[s.x] \in {Unknown, v}
               /\ newt' = [newt EXCEPT !.x0 = newt.x1, !.x1 = s.x,
                                       !.f0 = newt.f1, !.f1 = v,
                                       !.f[s.x] = v]
    /\ UNCHANGED <<data, tz, events, eventsExist, ret, build, sunFile,
                   sunCache, meta, sky>>

\* the loop test fails: return x1
NewtonReturn ==
    /\ newt.pc = "loop"
    /\ ~LoopContinues(newt)
    /\ newt' = [newt EXCEPT !.pc = "returned", !.status = "ok"]
    /\ UNCHANGED <<data, tz, events, eventsExist, ret, build, sunFile,
                   sunCache, meta, sky>>

NextNewton ==
    \/ NewtonCall
    \/ \E v \in Values : NewtonIterate(v)
    \/ NewtonReturn

\* one call of newton
SpecNewton == InitNewton /\ [][NextNewton]_vars

\* the call runs on: a step that can be taken is taken
SpecNewtonFair == SpecNewton /\ WF_vars(NextNewton)

-----------------------------------------------------------------------------
(* Actions of generate_horizon_events: the call, each resumption of the    *)
(* generator, its end.  alt is what the ephemeris gives at the hourly      *)
(* instants; the azimuth yielded with an event, another output of the      *)
(* ephemeris, is not carried.                                              *)

Idle ==
    /\ data = <<>>
    /\ tz = SetMin(TzOffsets)
    /\ events = <<>>
    /\ eventsExist = FALSE
    /\ ret = NoRet
    /\ build = NoBuild
    /\ sunFile = NoFile
    /\ sunCache = NoCache
    /\ meta = NoMeta
    /\ newt = NoNewton
    /\ sky = NoSky

\* generate_horizon_events(name_or_body, tt, days, altitude) up to the loop
HorizonCall ==
    /\ sky.pc = "idle"
    /\ \E tt \in Starts, span \in 1..MaxSpan, altitude \in SkyThresholds :
       \E alt \in [1..(span + 1) -> SkyAlts] :
          sky' = [NoSky EXCEPT
                     !.op = "generate_horizon_events",
                     !.pc = "running",
                     !.tt = tt,
                     !.jd = linspace(tt, span),
                     !.alt = alt,
                     !.altitude = altitude,
                     !.which_kind = IF alt[1] > altitude THEN 1 ELSE 0,
                     !.change_dates = change_dates(alt, altitude)]
    /\ UNCHANGED <<data, tz, events, eventsExist, ret, build, sunFile,
                   sunCache, meta, newt>>

\* one pass of the loop: brentq on [date, date + hour], yield, flip the kind
HorizonYield ==
    /\ sky.pc = "running"
    /\ sky.change_dates # <<>>
    /\ LET i == Head(sky.change_dates)
           date == sky.jd[i]
           fa == sky.alt[i] - sky.altitude
           fb == sky.alt[i + 1] - sky.altitude
       IN  \E r \in brentq(date, date + hour, fa, fb) :
              sky' = [sky EXCEPT
                         !.calls = Append(@, [a |-> date, b |-> date + hour,
                                              fa |-> fa, fb |-> fb]),
                         !.change_dates =
                             IF r.status = "ok" THEN Tail(@) ELSE @,
                         !.yielded =
                             IF r.status = "ok"
                             THEN Append(@, [t |-> r.x,
                                             kind |-> sky.which_kind])
                             ELSE @,
                         !.which_kind =
                             IF r.status = "ok" THEN 1 - @ ELSE @,
                         !.pc = IF r.status = "ok" THEN @ ELSE "raised",
                         !.status = IF r.status = "ok" THEN @ ELSE r.status]
    /\ UNCHANGED <<data, tz, events, eventsExist, ret, build, sunFile,
                   sunCache, meta, newt>>

\* the loop is over: the generator is exhausted
HorizonStop ==
    /\ sky.pc = "running"
    /\ sky.change_dates = <<>>
    /\ sky' = [sky EXCEPT !.pc = "done", !.status = "ok"]
    /\ UNCHANGED <<data, tz, events, eventsExist, ret, build, sunFile,
                   sunCache, meta, newt>>

NextHorizon ==
    \/ HorizonCall
    \/ HorizonYield
    \/ HorizonStop

\* one call of generate_horizon_events, consumed to its end
SpecHorizon == Idle /\ [][NextHorizon]_vars

-----------------------------------------------------------------------------
(* calculate_azimuth_event.  az is what the ephemeris gives at the         *)
(* samples; the altitude returned with the instant is not carried.         *)

\* calculate_azimuth_event(earth_location, body_name, azimuth, starting_time)
AzimuthCall ==
    /\ sky.pc = "idle"
    /\ \E tt \in Starts, span \in 1..MaxSpan, azimuth \in Targets :
       \E az \in [1..(span + 1) -> SkyAzs] :
          LET jd == linspace_azimuth(tt, span)
              i == FirstSelected(az, azimuth)
              call == [NoSky EXCEPT !.op = "calculate_azimuth_event",
                                    !.tt = tt, !.jd = jd, !.az = az,
                                    !.azimuth = azimuth, !.selected = i]
          IN  IF i = 0
              THEN sky' = [call EXCEPT !.pc = "raised",
                                       !.status = "ValueError"]
              ELSE \E r \in brentq(jd[i], jd[i + 1],
                                   az[i] - azimuth, az[i + 1] - azimuth) :
                      sky' = [call EXCEPT
                                 !.calls = <<[a |-> jd[i], b |-> jd[i + 1],
                                              fa |-> az[i] - azimuth,
                                              fb |-> az[i + 1] - azimuth]>>,
                                 !.yielded =
                                     IF r.status = "ok"
                                     THEN <<[t |-> r.x, kind |-> 0]>>
                                     ELSE <<>>,
                                 !.pc = IF r.status = "ok" THEN "done"
                                        ELSE "raised",
                                 !.status = r.status]
    /\ UNCHANGED <<data, tz, events, eventsExist, ret, build, sunFile,
                   sunCache, meta, newt>>

NextAzimuth == AzimuthCall

\* one call of calculate_azimuth_event
SpecAzimuth == Idle /\ [][NextAzimuth]_vars

-----------------------------------------------------------------------------
(* find_moon_phase and season up to their call newton(f, d, d + hour).     *)
(* The longitudes and the right ascension are what the ephemeris gives at  *)
(* the starting instant.                                                   *)

\* find_moon_phase(tt, motion, target)
FindMoonPhase ==
    /\ sky.pc = "idle"
    /\ \E tt \in Starts, motion \in Motions, target \in Phase,
          mlon \in Radians, slon \in Radians :
          LET antitarget == target + pi
              f0 == phase_residual(mlon, slon, antitarget)
              covered == PyMod(-f0, motion)
              angle_to_cover == replaced(covered, motion)
          IN  sky' = [NoSky EXCEPT
                         !.op = "find_moon_phase",
                         !.pc = "newton",
                         !.tt = tt,
                         !.args = <<mlon, slon, target>>,
                         !.motion = motion,
                         !.covered = covered,
                         !.angle_to_cover = angle_to_cover,
                         !.d = tt + seed_offset(2953, angle_to_cover)]
    /\ UNCHANGED <<data, tz, events, eventsExist, ret, build, sunFile,
                   sunCache, meta, newt>>

\* season(t, motion, offset)
SeasonCall ==
    /\ sky.pc = "idle"
    /\ \E tt \in Starts, motion \in Motions, offset \in Season,
          ra \in Radians :
          LET covered == motion - PyMod(ra + offset, motion)
              angle_to_cover == replaced(covered, motion)
          IN  sky' = [NoSky EXCEPT
                         !.op = "season",
                         !.pc = "newton",
                         !.tt = tt,
                         !.args = <<ra, offset>>,
                         !.motion = motion,
                         !.covered = covered,
                         !.angle_to_cover = angle_to_cover,
                         !.d = tt + seed_offset(36525, angle_to_cover)]
    /\ UNCHANGED <<data, tz, events, eventsExist, ret, build, sunFile,
                   sunCache, meta, newt>>

NextSeed ==
    \/ FindMoonPhase
    \/ SeasonCall

\* one phase or season search, to the seeds of its iteration
SpecSeed == Idle /\ [][NextSeed]_vars

-----------------------------------------------------------------------------
(* Properties of the position store *)

KeyOf(rec) == SubSeq(rec, 1, 4)

\* a partial key with its missing trailing fields at their minimum
Pad(k) == k \o SubSeq(FirstKey, Len(k) + 1, 4)

\* k1 <= k2 for two full (month, day, hour, minute) keys
KeyLeq(k1, k2) ==
    \/ k1 = k2
    \/ \E i \in 1..4 : k1[i] < k2[i] /\ \A j \in 1..(i - 1) : k1[j] = k2[j]

\* the positions (1-based) of the samples whose key is <= k
AtOrBefore(k) == {i \in 1..Len(data) : KeyLeq(KeyOf(data[i]), Pad(k))}

\* C1: for a key that is not before the first stored key, at(k) returns the
\* stored sample with the largest key less than or equal to k, so never a
\* sample whose key is after k.
C1_AtReturnsPredecessor ==
    (ret.op = "at" /\ AtOrBefore(ret.args) # {}) =>
        /\ ret.status = "ok"
        /\ KeyLeq(KeyOf(ret.value), Pad(ret.args))
        /\ \A i \in AtOrBefore(ret.args) : KeyLeq(KeyOf(data[i]), KeyOf(ret.value))

\* C2: at(k) raises ValueError exactly when k sorts before the key of every
\* stored sample; for every other k (the first key, the last key, a key after
\* the last one) it returns a sample and raises nothing.
C2_AtFailsOnlyBeforeFirst ==
    ret.op = "at" =>
        /\ ret.status = "ValueError" <=> AtOrBefore(ret.args) = {}
        /\ ret.status = "ok" <=> AtOrBefore(ret.args) # {}

\* the positions (1-based) of the records that are <= x in Python's order
NotAfter(x) == {i \in 1..Len(data) : ~PyLess(x, data[i])}

\* C3: search(a, x) returns (i, a[i]) with a[i] the rightmost element <= x,
\* raises ValueError exactly when no element is <= x, and a query with the
\* exact key of a stored minute yields that minute's record.
C3_SearchReturnsExactMinute ==
    ret.op = "search" =>
        /\ ret.status = "ValueError" <=> NotAfter(ret.args) = {}
        /\ ret.status = "ok" <=> NotAfter(ret.args) # {}
        /\ ret.status = "ok" =>
              /\ ret.index + 1 \in NotAfter(ret.args)
              /\ \A i \in NotAfter(ret.args) : i <= ret.index + 1
              /\ ret.value = data[ret.index + 1]
        /\ (\E i \in 1..Len(data) : KeyOf(data[i]) = ret.args) =>
              (ret.status = "ok" /\ KeyOf(ret.value) = ret.args)

\* C4: whenever Sun.at returns a sample, it is the sample stored immediately
\* after the one search returns for the same table and key.
C4_AtIsOneAfterSearch ==
    (ret.op = "at" /\ ret.status = "ok") =>
        LET s == search(data, ret.args)
        IN  /\ s.status = "ok"
            /\ ret.index = s.index + 1
            /\ ret.value = data[(s.index + 1) + 1]

\* at() has returned a sample that differs from the one search() returns
C4_Witness ==
    /\ ret.op = "at"
    /\ ret.status = "ok"
    /\ Len(data) >= 2
    /\ ret.value # search(data, ret.args).value

\* C5: now() returns what at() returns for the civil time of the current
\* instant in the timezone stored with the table, whatever the timezone of
\* the process.
C5_NowUsesTableTimezone ==
    ret.op = "now" =>
        LET r == Sun_at(data, Civil(ret.instant, tz))
        IN  ret.status = r.status /\ ret.value = r.value

-----------------------------------------------------------------------------
(* Properties of the event store and of the derivation *)

OnDateOf(evs, month, day) ==
    SelectSeq(evs, LAMBDA ev : ev[1] = month /\ ev[2] = day)

\* C6: on_date(month, day) returns exactly the events of the table whose
\* (month, day) is the argument, in table order.
C6_OnDateExact ==
    ret.op = "on_date" =>
        ret.list = OnDateOf(events, ret.args[1], ret.args[2])

\* on_date() has returned some events of a table that starts with an event
\* of another date
C6_Witness ==
    /\ ret.op = "on_date"
    /\ ret.list # <<>>
    /\ Len(ret.list) < Len(events)
    /\ <<events[1][1], events[1][2]>> # ret.args

QueryOps == {"at", "now", "on_date", "today"}

\* C7: a query leaves the position table and the event table as they were,
\* and an event query repeated right after itself returns the same list.
C7_QueriesReadOnly ==
    [][ret'.op \in QueryOps =>
          /\ data' = data
          /\ events' = events
          /\ ret'.again => ret'.list = ret.list]_vars

\* on_date() has been called twice in a row with the same date and has
\* returned events
C7_Witness ==
    /\ ret.op = "on_date"
    /\ ret.again
    /\ ret.list # <<>>
    /\ Len(ret.list) < Len(events)

\* the configured thresholds, on the scale of the stored altitudes
Thresholds ==
    {[t |-> 0, rising |-> "Rise", falling |-> "Set"],
     [t |-> -60, rising |-> "Dawn", falling |-> "Dusk"]}

\* the record the pair (data[i], data[i+1]) has to yield for threshold th,
\* <<>> if it has to yield none
Emitted(i, th) ==
    LET a == data[i]
        b == data[i + 1]
        az == b[6] \div 10
    IN  IF a[5] <= th.t /\ th.t < b[5]
        THEN <<b[1], b[2], b[3], b[4], th.rising, az>>
        ELSE IF a[5] > th.t /\ th.t >= b[5]
        THEN <<b[1], b[2], b[3], b[4], th.falling, az>>
        ELSE <<>>

Crossings == {c \in (1..(Len(data) - 1)) \X Thresholds : Emitted(c[1], c[2]) # <<>>}

\* C8: the event table holds one record per adjacent pair and threshold the
\* altitude crosses (rising when a <= t < b, falling when a > t >= b), with
\* the key of b and the azimuth of b truncated to an integer, and no other
\* record.
C8_EventsAreTheCrossings ==
    eventsExist =>
        /\ Len(events) = Cardinality(Crossings)
        /\ \A c \in Crossings :
              Cardinality({i \in 1..Len(events) : events[i] = Emitted(c[1], c[2])})
              = Cardinality({d \in Crossings : Emitted(d[1], d[2]) = Emitted(c[1], c[2])})

\* events have been derived from a table where a sample exactly at 0 is
\* followed by a higher one and another pair crosses a threshold too
C8_Witness ==
    /\ eventsExist
    /\ Len(events) >= 2
    /\ \E i \in 1..(Len(data) - 1) : data[i][5] = 0 /\ data[i + 1][5] > 0

\* C9: the event table is ordered by (month, day, hour, minute).
C9_EventsSortedByKey ==
    eventsExist =>
        \A i \in 1..(Len(events) - 1) :
            KeyLeq(KeyOf(events[i]), KeyOf(events[i + 1]))

\* events with different keys have been derived
C9_Witness ==
    /\ eventsExist
    /\ Len(events) >= 2
    /\ KeyOf(events[1]) # KeyOf(events[Len(events)])

\* the number of events of one kind stored under one key
EventCount(name, k) ==
    Cardinality({i \in 1..Len(events) : events[i][5] = name /\ KeyOf(events[i]) = k})

\* the number of adjacent pairs whose later sample has key k and whose
\* altitudes cross the horizon upwards (a <= 0 < b)
RisingCount(k) ==
    Cardinality({i \in 1..(Len(data) - 1) :
        KeyOf(data[i + 1]) = k /\ data[i][5] <= 0 /\ 0 < data[i + 1][5]})

\* the same for the crossings downwards (a > 0 >= b)
FallingCount(k) ==
    Cardinality({i \in 1..(Len(data) - 1) :
        KeyOf(data[i + 1]) = k /\ data[i][5] > 0 /\ 0 >= data[i + 1][5]})

\* no Dawn, no Dusk, one Rise per rising and one Set per falling crossing of
\* the horizon, each under the key of the later sample
OnlyRiseAndSet ==
    /\ \A i \in 1..Len(events) : events[i][5] \in {"Rise", "Set"}
    /\ \A k \in Keys :
          /\ EventCount("Rise", k) = RisingCount(k)
          /\ EventCount("Set", k) = FallingCount(k)

\* C11 as stated: if no sample of the position table is below -6 degrees,
\* the derived event table has no Dawn and no Dusk event, every rising
\* crossing of 0 degrees yields exactly one Rise and every falling crossing
\* exactly one Set, at the key of the later sample.
C11_NoTwilightUnlessBelow ==
    (eventsExist /\ \A i \in 1..Len(data) : data[i][5] >= Tenths(TWILIGHT))
        => OnlyRiseAndSet

\* C11 amended: if every sample of the position table is above -6 degrees
\* (none at -6 degrees or below), the derived event table has no Dawn and no
\* Dusk event, every rising crossing of 0 degrees yields exactly one Rise
\* and every falling crossing exactly one Set, at the key of the later
\* sample.
C11_NoTwilightWhenAbove ==
    (eventsExist /\ \A i \in 1..Len(data) : data[i][5] > Tenths(TWILIGHT))
        => OnlyRiseAndSet

\* events have been derived from a table that stays above -6 degrees and
\* crosses the horizon in both directions
C11_Witness ==
    /\ eventsExist
    /\ \A i \in 1..Len(data) : data[i][5] > Tenths(TWILIGHT)
    /\ \E i \in 1..Len(events) : events[i][5] = "Rise"
    /\ \E i \in 1..Len(events) : events[i][5] = "Set"

-----------------------------------------------------------------------------
(* Properties of the batch builder *)

DaysPerYear == Cardinality(Dates)

\* the n-th day (from 0) of the year y
DateOfDay(y, n) ==
    <<y, FirstKey[1] + (n \div Cardinality(Days)),
         FirstKey[2] + (n % Cardinality(Days))>>

\* fs holds every day of one year, once, in order
WholeYear(fs) ==
    /\ Len(fs) = DaysPerYear
    /\ \A i \in 1..Len(fs) : fs[i] = DateOfDay(fs[1][1], i - 1)

\* C12: every entry point of the builder submits exactly one task per
\* calendar day of one whole year, in consecutive dates, none missing and
\* none repeated, whatever the current date is.
C12_OneTaskPerDayOfYear ==
    build.phase # "idle" => WholeYear(build.fs)

\* the table in the file
Positions == sunFile.doc.positions

\* C13: the table a build writes is the same ordered sequence for every
\* order in which the tasks complete and for every size of the pool: the one
\* the tasks give when they are collected in the order of their dates.
C13_TableIndependentOfOrder ==
    build.phase = "written" =>
        Positions = BuildTable(build.entry, build.where, build.tz, build.fs)

\* a file has been written by a build of a whole year whose results came in
\* another order than the dates
C13_Witness ==
    /\ build.phase = "written"
    /\ WholeYear(build.fs)
    /\ build.results # ExtendInOrder(build.fs, Len(build.fs), build.where,
                                     build.tz, Decimals(build.entry))
    /\ Positions = results_sort(build.results)

\* C14: the file is written only after every submitted task has completed:
\* in no state has the file been written while a task is pending or running.
C14_WriteAfterAllTasks ==
    (build.phase = "written" \/ sunFile \notin {NoFile, OldFile}) =>
        \A i \in 1..Len(build.st) : build.st[i] \notin {"pending", "running"}

\* a file has been written by a build with more tasks than workers
C14_Witness ==
    /\ build.phase = "written"
    /\ sunFile \notin {NoFile, OldFile}
    /\ build.workers < Len(build.fs)

\* C15: if a task fails the build fails: once the loop has met the failed
\* future the build is on its way to raise, the file is not written and a
\* table persisted before is left as it was.
C15_TaskFailureAbortsBuild ==
    /\ (\E i \in 1..Len(build.st) : build.st[i] = "failed") =>
          /\ build.phase # "written"
          /\ sunFile \in {NoFile, OldFile}
    /\ (\E i \in build.yielded : build.st[i] = "failed") =>
          build.phase \in {"aborting", "failed"}
    /\ build.phase \in {"aborting", "failed"} =>
          sunFile \in {NoFile, OldFile}

\* a build has raised the failure of one task after it had collected the
\* results of another, with a file from an earlier build in place
C15_Witness ==
    /\ build.phase = "failed"
    /\ build.error = "task"
    /\ build.results # <<>>
    /\ sunFile = OldFile

\* the number of samples of the table on a civil date
SamplesOn(date) ==
    Cardinality({i \in 1..Len(Positions) :
        <<Positions[i][1], Positions[i][2]>> = date})

\* C16: for any timezone, with daylight-saving transitions or not, each
\* civil day present in a table the builder wrote has exactly one sample
\* per minute of the day (1440; PerDay in the calendar of the model).
C16_FullCivilDays ==
    build.phase = "written" =>
        \A date \in Dates : SamplesOn(date) \in {0, PerDay}

\* C17: for any timezone, with daylight-saving transitions or not, the
\* samples of a table the builder wrote are strictly increasing by key, so
\* no key occurs twice.
C17_StrictlyIncreasingKeys ==
    build.phase = "written" =>
        \A i \in 1..(Len(Positions) - 1) :
            PyLess(KeyOf(Positions[i]), KeyOf(Positions[i + 1]))

-----------------------------------------------------------------------------
(* Properties of the loader *)

\* C18: once load_sun() has succeeded, every later call returns the same
\* instance without reading the file, also when the file has been written
\* anew since; the process never holds more than one instance.
C18_LoadOnce ==
    [][(sunCache.loaded /\ ret'.op = "load_sun") =>
          /\ ret'.status = "ok"
          /\ ~ret'.read
          /\ ret'.index = sunCache.made
          /\ data' = data
          /\ meta' = meta
          /\ sunCache'.made <= 1]_vars

\* load_sun() has returned its cached instance while the file holds another
\* table than the one the instance was made from
C18_Witness ==
    /\ ret.op = "load_sun"
    /\ ret.status = "ok"
    /\ ~ret.read
    /\ sunCache.made = 1
    /\ Positions # data

\* C19: load_sun() called while the file is missing (and nothing is cached)
\* fails with an error and caches nothing; the failure is not remembered:
\* as soon as the file is there, the next call succeeds.
C19_FailureNotMemoized ==
    [][ret'.op = "load_sun" =>
          IF ~sunCache.loaded /\ ~sunFile.exists
          THEN /\ ret'.status = "AssertionError"
               /\ ~sunCache'.loaded
               /\ data' = data
          ELSE ret'.status = "ok"]_vars

\* load_sun() has read the file in a process where an earlier call had
\* failed
C19_Witness ==
    /\ ret.op = "load_sun"
    /\ ret.status = "ok"
    /\ ret.read
    /\ sunCache.failed

C28_EventsOfCurrentFile ==
    (ret.op = "create_horizon_event_data" /\ ret.status = "ok") =>
        events = create_horizon_event_data(Positions)

-----------------------------------------------------------------------------
(* Alternation of the events *)

\* the two event names of each threshold
ThresholdNames == {{"Rise", "Set"}, {"Dawn", "Dusk"}}

\* the positions in the event table of the events of one threshold
EventsOf(names) == {i \in 1..Len(events) : events[i][5] \in names}

StrictlyIncreasing(table) ==
    \A i \in 1..(Len(table) - 1) :
        KeyOf(table[i]) # KeyOf(table[i + 1])
        /\ KeyLeq(KeyOf(table[i]), KeyOf(table[i + 1]))

\* C29: for a position table in strictly increasing key order, the events
\* of one threshold alternate in the event table (two events of a threshold
\* with none of that threshold between them have different names, so between
\* two Rise there is exactly one Set and conversely, likewise Dawn and
\* Dusk), and no pair of adjacent samples yields two events of one
\* threshold.
C29_EventsAlternate ==
    (eventsExist /\ StrictlyIncreasing(data)) =>
        \A names \in ThresholdNames :
            /\ \A i, j \in EventsOf(names) :
                  (i < j /\ \A k \in EventsOf(names) : ~(i < k /\ k < j))
                      => events[i][5] # events[j][5]
            /\ \A i, j \in EventsOf(names) :
                  KeyOf(events[i]) = KeyOf(events[j]) => i = j

\* the events of a table that rises, sets and rises again have been derived
C29_Witness ==
    /\ eventsExist
    /\ StrictlyIncreasing(data)
    /\ \E i, j, k \in 1..Len(events) :
          /\ i < j /\ j < k
          /\ events[i][5] = "Rise"
          /\ events[j][5] = "Set"
          /\ events[k][5] = "Rise"

-----------------------------------------------------------------------------
(* Properties of newton *)

\* C21: a call of newton comes to an end, by returning or by failing with
\* DidNotConverge at a maximum number of iterations, for every function f
\* and every pair of seeds.
C21_NewtonTerminates ==
    (newt.pc = "loop") ~> (newt.pc \in {"returned", "DidNotConverge", "outside"})

\* the instants newton has evaluated f at
Evaluated == {x \in Window : newt.f[x] # Unknown}

\* C25: newton never divides by zero: the update is evaluated only when
\* f(x1) is neither zero nor equal to f(x0); when f(x1) is zero or the two
\* values are equal the loop ends and x1 is returned as a normal result.
C25_NoDivisionByZero ==
    [][newt.pc = "loop" =>
          /\ newt'.pc # "raised"
          /\ newt'.pc \in {"loop", "outside"} =>
                newt.f1 # 0 /\ newt.f1 # newt.f0
          /\ (newt.f1 = 0 \/ newt.f1 = newt.f0) =>
                /\ newt'.pc = "returned"
                /\ newt'.status = "ok"
                /\ newt'.x1 = newt.x1]_vars

\* newton returned x1 normally because the last two values of f were equal
\* and not zero, the iterates further apart than the precision, after at
\* least one update
C25_Witness ==
    /\ newt.pc = "returned"
    /\ newt.status = "ok"
    /\ newt.f1 # 0
    /\ newt.f1 = newt.f0
    /\ abs(newt.x1 - newt.x0) > newt.precision
    /\ Cardinality(Evaluated) > 2

-----------------------------------------------------------------------------
(* Properties of generate_horizon_events *)

\* the sign of (altitude - threshold) at the i-th hourly sample
SignAt(i) == sign(sky.alt[i] - sky.altitude)

\* the pairs of consecutive hourly samples whose signs differ, by the index
\* of the earlier sample
DifferingPairs ==
    {i \in 1..(Len(sky.alt) - 1) : SignAt(i) # SignAt(i + 1)}

\* C22: when no two consecutive samples of the span differ in sign, the
\* search fails with EventNotFound instead of giving an empty result.
C22_NoSignChangeFails ==
    (/\ sky.op = "generate_horizon_events"
     /\ sky.pc \in {"done", "raised"}
     /\ DifferingPairs = {})
        => sky.status = "EventNotFound"

\* every call of the root-finder was on the hour between two consecutive
\* samples whose signs differ, with endpoint values not of the same strict
\* sign, and every instant yielded lies in the interval of its call and in
\* the span
BracketsSound ==
    /\ sky.status # "ValueError"
    /\ Len(sky.calls) = Len(sky.yielded)
    /\ \A k \in 1..Len(sky.calls) :
          LET c == sky.calls[k]
          IN  /\ \E i \in DifferingPairs :
                    c.a = sky.jd[i] /\ c.b = sky.jd[i + 1]
              /\ c.b - c.a = hour
              /\ ~(c.fa > 0 /\ c.fb > 0)
              /\ ~(c.fa < 0 /\ c.fb < 0)
              /\ c.a <= sky.yielded[k].t
              /\ sky.yielded[k].t <= c.b
              /\ sky.tt <= sky.yielded[k].t
              /\ sky.yielded[k].t <= sky.tt + (Len(sky.alt) - 1) * hour

C27_KindIsDirection ==
    (sky.op = "generate_horizon_events" /\ sky.pc = "done") =>
        /\ Len(sky.yielded) = Cardinality(DifferingPairs)
        /\ \A k \in 1..Len(sky.yielded) :
              sky.yielded[k].kind =
                  IF sign(sky.calls[k].fb) > sign(sky.calls[k].fa)
                  THEN 0 ELSE 1

-----------------------------------------------------------------------------
(* Properties of calculate_azimuth_event *)

\* the azimuth, going the short way round from the i-th sample to the
\* next, passes the target
Passes(i) ==
    LET forward == (sky.az[i + 1] - sky.az[i]) % 360
        backward == (sky.az[i] - sky.az[i + 1]) % 360
    IN  IF forward <= backward
        THEN (sky.azimuth - sky.az[i]) % 360 <= forward
        ELSE (sky.az[i] - sky.azimuth) % 360 <= backward

\* C24: when the azimuth passes the target between two consecutive samples,
\* also from just below 360 degrees to just above 0, the search selects a
\* pair; the pair it selects is one the azimuth passes the target in, and
\* the root-finder is called on it with endpoint residuals of opposite
\* signs or one of them zero.
C24_CircularAzimuth ==
    sky.op = "calculate_azimuth_event" =>
        /\ (\E i \in 1..(Len(sky.az) - 1) : Passes(i)) => sky.selected # 0
        /\ sky.selected # 0 =>
              /\ Passes(sky.selected)
              /\ sky.status = "ok"
              /\ ~(sky.calls[1].fa > 0 /\ sky.calls[1].fb > 0)
              /\ ~(sky.calls[1].fa < 0 /\ sky.calls[1].fb < 0)

-----------------------------------------------------------------------------
(* Properties of the seeds *)

\* the approximate period of the search, in the unit of time
Period ==
    IF sky.op = "find_moon_phase" THEN 2953 * (Day \div 100)
    ELSE 36525 * (Day \div 100)

\* C30: the seed of find_moon_phase and of season lies strictly in the
\* direction asked for and at most one period away: for Next the angle to
\* cover is in (0, 2*pi] and d is after the start, for Previous it is in
\* [-2*pi, 0) and d is before the start, and an angle smaller in magnitude
\* than tiny has been replaced by one full cycle in that direction.
C30_SeedInDirection ==
    sky.op \in {"find_moon_phase", "season"} =>
        /\ sky.motion = twopi =>
              /\ 0 < sky.angle_to_cover
              /\ sky.angle_to_cover <= twopi
              /\ sky.tt < sky.d
              /\ sky.d <= sky.tt + Period
        /\ sky.motion = -twopi =>
              /\ -twopi <= sky.angle_to_cover
              /\ sky.angle_to_cover < 0
              /\ sky.d < sky.tt
              /\ sky.tt - Period <= sky.d
        /\ abs(sky.angle_to_cover) >= tiny
        /\ IF abs(sky.covered) < tiny
           THEN sky.angle_to_cover = sky.motion
           ELSE sky.angle_to_cover = sky.covered

\* a search backwards from an instant at which the residual angle is zero:
\* the angle to cover became a full cycle backwards and the seed lies one
\* period before the start
C30_Witness ==
    /\ sky.op = "find_moon_phase"
    /\ sky.motion = -twopi
    /\ sky.covered = 0
    /\ sky.angle_to_cover = -twopi
    /\ sky.d = sky.tt - Period

====
